---- MODULE Spec2Model ----
(***************************************************************************)
(* Brave Search MCP server (server/search.py): the process-wide rate gate  *)
(* (check_rate_limit over request_count), the searches built on it         *)
(* (perform_web_search, perform_local_search with its asyncio.gather       *)
(* fan-out to get_pois_data / get_descriptions_data) and the two tool      *)
(* entry points (brave_web_search, brave_local_search).                    *)
(*                                                                         *)
(* The server runs on one asyncio event loop: a coroutine runs without     *)
(* interruption from one await to the next, so every action below is one   *)
(* such slice.  Time is counted in ticks of 1/TicksPerSecond second.       *)
(***************************************************************************)
EXTENDS Naturals, Sequences, FiniteSets, TLC

VARIABLES
    request_count,   \* search.py:26  {"second", "month", "last_reset"}
    RATE_LIMIT,      \* search.py:20  {"per_second", "per_month"}
    now,             \* time.time(), in ticks
    upstream,        \* what the Brave API answers on each endpoint
    call,            \* the tool invocations in progress, one per caller
    issued,          \* number of client.get calls made so far
    admitted,        \* number of check_rate_limit calls that returned
    lastAdmit,       \* the last direct call of check_rate_limit and its result
    counts           \* the values the callers pass as count

vars == <<request_count, RATE_LIMIT, now, upstream, call, issued, admitted, lastAdmit, counts>>

----------------------------------------------------------------------------
(* Bounds *)

\* clock resolution: ticks per second
TicksPerSecond == 2

\* the clock stops at MaxTime ticks
MaxTime == 7

\* stands for RATE_LIMIT["per_month"] (15000 in search.py:22), scaled down
PerMonth == 3

\* largest per-second limit tried when the gate is exercised on its own
MaxPerSecond == 2

\* RATE_LIMIT["per_second"]
PerSecond == 1

\* the concurrent tool invocations
Callers == {"c1", "c2"}

\* the most results the API gives for one request
ApiLimit == 20

\* count: int = 5
DefaultCount == 5

\* the greatest count a caller asks for
MaxCount == 22

\* the counts a caller may pass: the default, the API limit and its
\* neighbours up to MaxCount
Counts == {DefaultCount} \cup ((ApiLimit - 1)..MaxCount)

----------------------------------------------------------------------------
(* Text helpers *)

RECURSIVE Join(_, _)
\* sep.join(parts)
Join(parts, sep) ==
    IF Len(parts) = 0 THEN ""
    ELSE IF Len(parts) = 1 THEN parts[1]
    ELSE parts[1] \o sep \o Join(Tail(parts), sep)

\* d.get(k, dflt) on a JSON object
Get(d, k, dflt) == IF k \in DOMAIN d THEN d[k] ELSE dflt

\* k in d
Has(d, k) == k \in DOMAIN d

RECURSIVE SelectTruthyIds(_)
\* [result.get('id') for result in results if result.get('id')]
SelectTruthyIds(results) ==
    IF Len(results) = 0 THEN <<>>
    ELSE LET id == Get(Head(results), "id", "")
         IN  (IF id # "" THEN <<id>> ELSE <<>>) \o SelectTruthyIds(Tail(results))

----------------------------------------------------------------------------
(* The upstream API: responses of client.get *)

\* the body of a response that carries no result
NoData == [type |-> "ErrorResponse"]

\* client.get raises (connection, DNS, timeout)
TransportFailure ==
    [raises |-> TRUE, status_code |-> 0, reason_phrase |-> "",
     text |-> "All connection attempts failed", data |-> NoData]

\* a non-200 answer
HttpError ==
    [raises |-> FALSE, status_code |-> 500, reason_phrase |-> "Error",
     text |-> "{}", data |-> NoData]

\* a 200 answer whose body parses to data
Http200(data) ==
    [raises |-> FALSE, status_code |-> 200, reason_phrase |-> "OK",
     text |-> "", data |-> data]

WebData ==
    [web |-> [results |-> <<
        [title |-> "Sample Title 1", description |-> "Sample Description 1",
         url |-> "https://example.com/1"],
        [title |-> "Sample Title 2", url |-> "https://example.com/2"] >>]]

LocationsData ==
    [locations |-> [results |-> <<
        [id |-> "loc1", title |-> "Location 1"],
        [id |-> "", title |-> "Nameless"],
        [id |-> "loc2", title |-> "Location 2"] >>]]

NoLocationsData ==
    [locations |-> [results |-> << [id |-> "", title |-> "Nameless"] >>]]

PoisData ==
    [results |-> <<
        [id |-> "loc1", name |-> "Restaurant 1",
         address |-> [streetAddress |-> "123 Main St", addressLocality |-> "Anytown",
                      addressRegion |-> "CA", postalCode |-> "12345"],
         phone |-> "+1-555-123-4567",
         rating |-> [ratingValue |-> "4.5", ratingCount |-> 100],
         openingHours |-> <<"Mon-Fri 9am-5pm", "Sat 10am-3pm">>,
         priceRange |-> "$$"],
        [id |-> "loc2", name |-> "Restaurant 2",
         address |-> [addressLocality |-> "Othertown"]] >>]

EmptyPoisData == [results |-> <<>>]

\* a POI answer without the "results" key
BarePoisData == [type |-> "local_pois"]

DescriptionsData ==
    [descriptions |-> [loc1 |-> "A great place to eat with a variety of dishes."]]

Endpoints == {"locations", "web", "pois", "descriptions"}

Upstreams ==
    [locations    : {TransportFailure, HttpError, Http200(LocationsData), Http200(NoLocationsData)},
     web          : {TransportFailure, HttpError, Http200(WebData)},
     pois         : {TransportFailure, HttpError, Http200(PoisData), Http200(EmptyPoisData),
                     Http200(BarePoisData)},
     descriptions : {TransportFailure, HttpError, Http200(DescriptionsData)}]

----------------------------------------------------------------------------
(* Results of a coroutine: a returned text or a raised exception *)

NoOutcome == [kind |-> "none", text |-> ""]

Returned(text) == [kind |-> "ok", text |-> text]

Raised(msg) == [kind |-> "err", text |-> msg]

RateLimitMessage == "Rate limit exceeded"

\* f"Brave API error: {response.status_code} {response.reason_phrase}\n{response.text}"
ApiErrorMessage(r) ==
    "Brave API error: " \o ToString(r.status_code) \o " " \o r.reason_phrase
        \o "\n" \o r.text

\* fault: the status code of the answer is not looked at
ResponseError_StatusIgnored(r) == IF r.raises THEN r.text ELSE ""

\* the exception a response makes the caller raise, "" when there is none
ResponseError(r) ==
    IF r.raises THEN r.text
    ELSE IF r.status_code # 200 THEN ApiErrorMessage(r)
    ELSE ""

----------------------------------------------------------------------------
(* Formatting *)

RECURSIVE ExtractWebResults(_)
\* the {'title', 'description', 'url'} triples of perform_web_search
ExtractWebResults(results) ==
    IF Len(results) = 0 THEN <<>>
    ELSE << [title       |-> Get(Head(results), "title", ""),
             description |-> Get(Head(results), "description", ""),
             url         |-> Get(Head(results), "url", "")] >>
         \o ExtractWebResults(Tail(results))

\* f"Title: {r['title']}\nDescription: {r['description']}\nURL: {r['url']}"
FormatWebResult(r) ==
    "Title: " \o r.title \o "\nDescription: " \o r.description \o "\nURL: " \o r.url

RECURSIVE FormatWebResults(_)
\* [f"Title: ..." for r in results]
FormatWebResults(results) ==
    IF Len(results) = 0 THEN <<>>
    ELSE <<FormatWebResult(Head(results))>> \o FormatWebResults(Tail(results))

\* the text perform_web_search returns for a parsed 200 body
FormatWeb(data) ==
    LET results == IF Has(data, "web") /\ Has(data.web, "results")
                   THEN ExtractWebResults(data.web.results) ELSE <<>>
    IN  Join(FormatWebResults(results), "\n\n")

\* the block format_local_results renders for one POI
FormatPoi(poi, desc_data) ==
    LET addr == Get(poi, "address", NoData)
        part(k) == IF Has(addr, k) /\ addr[k] # "" THEN <<addr[k]>> ELSE <<>>
        address_parts ==
            part("streetAddress") \o part("addressLocality")
                \o part("addressRegion") \o part("postalCode")
        address == IF Len(address_parts) > 0 THEN Join(address_parts, ", ") ELSE "N/A"
        rating == Get(poi, "rating", NoData)
        rating_value == Get(rating, "ratingValue", "N/A")
        rating_count == Get(rating, "ratingCount", 0)
        hours == IF Has(poi, "openingHours") /\ Len(poi.openingHours) > 0
                 THEN Join(poi.openingHours, ", ") ELSE "N/A"
        description ==
            IF Has(desc_data, "descriptions") /\ Has(desc_data.descriptions, poi.id)
            THEN desc_data.descriptions[poi.id]
            ELSE "No description available"
    IN  "Name: " \o Get(poi, "name", "N/A")
        \o "\nAddress: " \o address
        \o "\nPhone: " \o Get(poi, "phone", "N/A")
        \o "\nRating: " \o rating_value \o " (" \o ToString(rating_count) \o " reviews)"
        \o "\nPrice Range: " \o Get(poi, "priceRange", "N/A")
        \o "\nHours: " \o hours
        \o "\nDescription: " \o description

RECURSIVE FormatPois(_, _)
\* formatted_results of format_local_results
FormatPois(pois, desc_data) ==
    IF Len(pois) = 0 THEN <<>>
    ELSE <<FormatPoi(Head(pois), desc_data)>> \o FormatPois(Tail(pois), desc_data)

\* fault: an answer without results is formatted like any other
format_local_results_Unguarded(pois_data, desc_data) ==
    Join(FormatPois(Get(pois_data, "results", <<>>), desc_data), "\n---\n")

\* format_local_results(pois_data, desc_data)
format_local_results(pois_data, desc_data) ==
    IF ~Has(pois_data, "results") \/ Len(pois_data.results) = 0
    THEN "No local results found"
    ELSE Join(FormatPois(pois_data.results, desc_data), "\n---\n")

\* the location ids perform_local_search extracts from the initial answer
LocationIds(web_data) ==
    IF Has(web_data, "locations") /\ Has(web_data.locations, "results")
    THEN SelectTruthyIds(web_data.locations.results)
    ELSE <<>>

----------------------------------------------------------------------------
(* The rate gate *)

\* now - request_count["last_reset"] > 1
WindowExpired(rc, t) == t - rc.last_reset > TicksPerSecond

\* fault: the reset moves the window but keeps the old count
ResetWindow_KeepsCount(rc, t) ==
    IF WindowExpired(rc, t) THEN [rc EXCEPT !.last_reset = t] ELSE rc

\* fault: the reset clears the monthly count with the window
ResetWindow_ClearsMonth(rc, t) ==
    IF WindowExpired(rc, t)
    THEN [rc EXCEPT !.second = 0, !.month = 0, !.last_reset = t] ELSE rc

\* the window reset at the head of check_rate_limit
ResetWindow(rc, t) ==
    IF WindowExpired(rc, t) THEN [rc EXCEPT !.second = 0, !.last_reset = t] ELSE rc

\* fault: the monthly count is not compared with its limit
OverLimit_MonthIgnored(rc, lim) == rc.second >= lim.per_second

\* fault: the per-second comparison is off by one
OverLimit_OffByOne(rc, lim) == rc.second > lim.per_second \/ rc.month >= lim.per_month

\* the condition under which check_rate_limit raises
OverLimit(rc, lim) == rc.second >= lim.per_second \/ rc.month >= lim.per_month

\* fault: the month increment is lost
CountRequest_LostMonth(rc) == [rc EXCEPT !.second = @ + 1]

\* the two increments at the end of check_rate_limit
CountRequest(rc) == [rc EXCEPT !.second = @ + 1, !.month = @ + 1]

\* check_rate_limit(): whether it returns (ok) or raises, and the counters it leaves
check_rate_limit(rc, lim, t) ==
    LET r == ResetWindow(rc, t)
    IN  IF OverLimit(r, lim) THEN [ok |-> FALSE, rc |-> r]
        ELSE [ok |-> TRUE, rc |-> CountRequest(r)]

----------------------------------------------------------------------------
(* Tool invocations *)

\* a lookup task of the fan-out that was not started
NoTask == [pc |-> "none", err |-> "", data |-> NoData]

\* a caller with no invocation in progress
Idle ==
    [tool |-> "none", pc |-> "idle", fallback |-> FALSE, ids |-> <<>>,
     pois |-> NoTask, desc |-> NoTask, firstErr |-> "",
     outcome |-> NoOutcome, ret |-> "", fresh |-> FALSE,
     sent |-> [e \in Endpoints |-> 0], rejected |-> {}, admits |-> 0,
     count |-> 0, params |-> {}]

\* fault: the request is made whatever check_rate_limit did
Requests_Always(g) == 1

\* fault: the request is made twice after one admit
Requests_Retry(g) == IF g.ok THEN 2 ELSE 0

\* number of client.get calls a gated operation makes once check_rate_limit
\* has returned g: the raise leaves the operation before its request
Requests(g) == IF g.ok THEN 1 ELSE 0

\* fault: the handler returns the bare message
ToolReturn_Bare(outcome) == outcome.text

\* try: return await perform_...(...)  except Exception as e: return f"Error: {str(e)}"
ToolReturn(outcome) ==
    IF outcome.kind = "err" THEN "Error: " \o outcome.text ELSE outcome.text

\* the invocation ends: perform_... returned or raised, the entry point returns
Finish(cr, outcome) ==
    [cr EXCEPT !.pc = "done", !.outcome = outcome, !.ret = ToolReturn(outcome)]

\* what perform_web_search makes of the answer to its request
WebOutcome(r) ==
    IF ResponseError(r) # "" THEN Raised(ResponseError(r))
    ELSE Returned(FormatWeb(r.data))

\* the counters are as at start-up
Fresh(rc) == rc.second = 0 /\ rc.month = 0

\* check_rate_limit() called now on the process-wide counters
Gate == check_rate_limit(request_count, RATE_LIMIT, now)

\* number of returns of check_rate_limit in g
Admits(g) == IF g.ok THEN 1 ELSE 0

\* the bookkeeping of one gated operation of cr on endpoint e: its admit or
\* its rejection, and its request
Account(cr, g, e) ==
    [cr EXCEPT !.sent[e] = @ + Requests(g),
               !.admits = @ + Admits(g),
               !.rejected = IF g.ok THEN @ ELSE @ \cup {e}]

\* fault: the count goes upstream as the caller gave it
ApiCount_Unclamped(count) == count

\* 'count': min(count, 20)
ApiCount(count) == IF count < ApiLimit THEN count ELSE ApiLimit

\* the 'count' of the params of the request a gated operation of cr makes
\* on endpoint e once check_rate_limit has returned g
WithParams(cr, g, e) ==
    IF Requests(g) > 0
    THEN [cr EXCEPT !.params = @ \cup {[endpoint |-> e, count |-> ApiCount(cr.count)]}]
    ELSE cr

\* brave_web_search -> perform_web_search, up to await client.get
InvokeWeb(c) ==
    /\ call[c].pc = "idle"
    /\ \E count \in counts :
       LET g == Gate
           cr == WithParams(Account([Idle EXCEPT !.tool = "web", !.count = count,
                                                 !.fresh = Fresh(request_count)],
                                    g, "web"), g, "web")
       IN  /\ request_count' = g.rc
           /\ issued' = issued + Requests(g)
           /\ admitted' = admitted + Admits(g)
           /\ call' = [call EXCEPT ![c] =
                         IF g.ok THEN [cr EXCEPT !.pc = "web_wait"]
                         ELSE Finish(cr, Raised(RateLimitMessage))]
    /\ UNCHANGED <<RATE_LIMIT, now, upstream, lastAdmit, counts>>

\* perform_web_search from the answer of client.get to its return
WebResponse(c) ==
    /\ call[c].pc = "web_wait"
    /\ call' = [call EXCEPT ![c] = Finish(@, WebOutcome(upstream.web))]
    /\ UNCHANGED <<request_count, RATE_LIMIT, now, upstream, issued, admitted, lastAdmit, counts>>

\* brave_local_search -> perform_local_search, up to await client.get
InvokeLocal(c) ==
    /\ call[c].pc = "idle"
    /\ \E count \in counts :
       LET g == Gate
           cr == WithParams(Account([Idle EXCEPT !.tool = "local", !.count = count,
                                                 !.fresh = Fresh(request_count)],
                                    g, "locations"), g, "locations")
       IN  /\ request_count' = g.rc
           /\ issued' = issued + Requests(g)
           /\ admitted' = admitted + Admits(g)
           /\ call' = [call EXCEPT ![c] =
                         IF g.ok THEN [cr EXCEPT !.pc = "loc_wait"]
                         ELSE Finish(cr, Raised(RateLimitMessage))]
    /\ UNCHANGED <<RATE_LIMIT, now, upstream, lastAdmit, counts>>

\* perform_local_search from the answer of the initial request to its next
\* await: the raise on an error, the fallback's perform_web_search up to its
\* client.get, or asyncio.gather of the two lookups
LocalResponse(c) ==
    /\ call[c].pc = "loc_wait"
    /\ LET r == upstream.locations
           location_ids == LocationIds(r.data)
       IN  IF ResponseError(r) # ""
           THEN /\ call' = [call EXCEPT ![c] = Finish(@, Raised(ResponseError(r)))]
                /\ UNCHANGED <<request_count, issued, admitted>>
           ELSE IF Len(location_ids) = 0
           THEN LET g == Gate
                    cr == WithParams(Account([call[c] EXCEPT !.fallback = TRUE], g, "web"),
                                     g, "web")
                IN  /\ request_count' = g.rc
                    /\ issued' = issued + Requests(g)
                    /\ admitted' = admitted + Admits(g)
                    /\ call' = [call EXCEPT ![c] =
                                  IF g.ok THEN [cr EXCEPT !.pc = "web_wait"]
                                  ELSE Finish(cr, Raised(RateLimitMessage))]
           ELSE /\ call' = [call EXCEPT ![c] =
                              [@ EXCEPT !.pc = "join", !.ids = location_ids,
                                        !.pois = [NoTask EXCEPT !.pc = "start"],
                                        !.desc = [NoTask EXCEPT !.pc = "start"]]]
                /\ UNCHANGED <<request_count, issued, admitted>>
    /\ UNCHANGED <<RATE_LIMIT, now, upstream, lastAdmit, counts>>

\* a lookup task ends with an exception: gather hands the first one to its awaiter
TaskFailed(cr, msg) ==
    [cr EXCEPT !.firstErr = IF @ = "" THEN msg ELSE @]

\* get_pois_data up to await client.get; gather starts it first
PoisStart(c) ==
    /\ call[c].pois.pc = "start"
    /\ LET g == Gate
           cr == Account(call[c], g, "pois")
       IN  /\ request_count' = g.rc
           /\ issued' = issued + Requests(g)
           /\ admitted' = admitted + Admits(g)
           /\ call' = [call EXCEPT ![c] =
                         IF g.ok THEN [cr EXCEPT !.pois.pc = "wait"]
                         ELSE TaskFailed([cr EXCEPT !.pois.pc = "failed",
                                                    !.pois.err = RateLimitMessage],
                                         RateLimitMessage)]
    /\ UNCHANGED <<RATE_LIMIT, now, upstream, lastAdmit, counts>>

\* get_descriptions_data up to await client.get; gather starts it second
DescStart(c) ==
    /\ call[c].desc.pc = "start"
    /\ call[c].pois.pc # "start"
    /\ LET g == Gate
           cr == Account(call[c], g, "descriptions")
       IN  /\ request_count' = g.rc
           /\ issued' = issued + Requests(g)
           /\ admitted' = admitted + Admits(g)
           /\ call' = [call EXCEPT ![c] =
                         IF g.ok THEN [cr EXCEPT !.desc.pc = "wait"]
                         ELSE TaskFailed([cr EXCEPT !.desc.pc = "failed",
                                                    !.desc.err = RateLimitMessage],
                                         RateLimitMessage)]
    /\ UNCHANGED <<RATE_LIMIT, now, upstream, lastAdmit, counts>>

\* get_pois_data from the answer of client.get to its return
PoisResponse(c) ==
    /\ call[c].pois.pc = "wait"
    /\ LET r == upstream.pois
       IN  call' = [call EXCEPT ![c] =
                      IF ResponseError(r) # ""
                      THEN TaskFailed([@ EXCEPT !.pois.pc = "failed",
                                                !.pois.err = ResponseError(r)],
                                      ResponseError(r))
                      ELSE [@ EXCEPT !.pois.pc = "ok", !.pois.data = r.data]]
    /\ UNCHANGED <<request_count, RATE_LIMIT, now, upstream, issued, admitted, lastAdmit, counts>>

\* get_descriptions_data from the answer of client.get to its return
DescResponse(c) ==
    /\ call[c].desc.pc = "wait"
    /\ LET r == upstream.descriptions
       IN  call' = [call EXCEPT ![c] =
                      IF ResponseError(r) # ""
                      THEN TaskFailed([@ EXCEPT !.desc.pc = "failed",
                                                !.desc.err = ResponseError(r)],
                                      ResponseError(r))
                      ELSE [@ EXCEPT !.desc.pc = "ok", !.desc.data = r.data]]
    /\ UNCHANGED <<request_count, RATE_LIMIT, now, upstream, issued, admitted, lastAdmit, counts>>

\* fault: the gather resumes as soon as one lookup has ended
GatherReady_First(cr) ==
    \/ cr.firstErr # "" /\ cr.desc.pc # "start"
    \/ cr.pois.pc = "ok"
    \/ cr.desc.pc = "ok"

\* await asyncio.gather(...) resumes: with the first exception of a lookup,
\* once both tasks have run their first slice, or with both results
GatherReady(cr) ==
    \/ cr.firstErr # "" /\ cr.desc.pc # "start"
    \/ cr.pois.pc = "ok" /\ cr.desc.pc = "ok"

\* fault: a failed lookup is passed over and what is there is formatted
GatherOutcome_Partial(cr) ==
    IF cr.pois.pc = "failed" THEN Raised(cr.pois.err)
    ELSE Returned(format_local_results(cr.pois.data, cr.desc.data))

\* what perform_local_search makes of the gather
GatherOutcome(cr) ==
    IF cr.firstErr # "" THEN Raised(cr.firstErr)
    ELSE Returned(format_local_results(cr.pois.data, cr.desc.data))

\* perform_local_search from the gather to its return
JoinLookups(c) ==
    /\ call[c].pc = "join"
    /\ GatherReady(call[c])
    /\ call' = [call EXCEPT ![c] = Finish(@, GatherOutcome(@))]
    /\ UNCHANGED <<request_count, RATE_LIMIT, now, upstream, issued, admitted, lastAdmit, counts>>

\* the caller has its text and may invoke a tool again; a lookup still in
\* flight is left to end on its own, its answer is used by nobody
Recycle(c) ==
    /\ call[c].pc = "done"
    /\ call' = [call EXCEPT ![c] = Idle]
    /\ UNCHANGED <<request_count, RATE_LIMIT, now, upstream, issued, admitted, lastAdmit, counts>>

\* time.time() advances
Tick ==
    /\ now < MaxTime
    /\ now' = now + 1
    /\ UNCHANGED <<request_count, RATE_LIMIT, upstream, call, issued, admitted, lastAdmit, counts>>

\* no direct call of check_rate_limit yet
NoAdmit ==
    [called |-> FALSE, at |-> 0, before |-> [second |-> 0, month |-> 0, last_reset |-> 0],
     prior |-> 0, inWindow |-> 0, ok |-> FALSE, raised |-> "", times |-> <<>>]

\* check_rate_limit() called on its own, as test_rate_limit drives it;
\* inWindow counts the admits that succeeded since last_reset was set,
\* times holds the time of every admit that succeeded
GateAdmit ==
    /\ LET g == Gate
           kept == IF g.rc.last_reset = request_count.last_reset
                   THEN lastAdmit.inWindow ELSE 0
       IN  /\ request_count' = g.rc
           /\ lastAdmit' = [called |-> TRUE, at |-> now, before |-> request_count,
                            prior |-> kept,
                            inWindow |-> kept + (IF g.ok THEN 1 ELSE 0),
                            ok |-> g.ok,
                            raised |-> IF g.ok THEN "" ELSE RateLimitMessage,
                            times |-> IF g.ok THEN Append(lastAdmit.times, now)
                                      ELSE lastAdmit.times]
           /\ admitted' = admitted + Admits(g)
    /\ UNCHANGED <<RATE_LIMIT, now, upstream, call, issued, counts>>

----------------------------------------------------------------------------
(* Specifications *)

\* the module as imported: RATE_LIMIT and request_count of search.py:20-30
Init ==
    /\ RATE_LIMIT = [per_second |-> PerSecond, per_month |-> PerMonth]
    /\ now = 0
    /\ request_count = [second |-> 0, month |-> 0, last_reset |-> 0]
    /\ upstream \in Upstreams
    /\ call = [c \in Callers |-> Idle]
    /\ issued = 0
    /\ admitted = 0
    /\ lastAdmit = NoAdmit
    /\ counts = {DefaultCount}

Next ==
    \/ \E c \in Callers :
          \/ InvokeWeb(c)
          \/ WebResponse(c)
          \/ InvokeLocal(c)
          \/ LocalResponse(c)
          \/ PoisStart(c)
          \/ DescStart(c)
          \/ PoisResponse(c)
          \/ DescResponse(c)
          \/ JoinLookups(c)
          \/ Recycle(c)
    \/ Tick

Spec == Init /\ [][Next]_vars

\* the rate gate on its own, with the limits configured to any small values
InitGate ==
    /\ RATE_LIMIT \in [per_second : 1..MaxPerSecond, per_month : 1..PerMonth]
    /\ now = 0
    /\ request_count = [second |-> 0, month |-> 0, last_reset |-> 0]
    /\ upstream = CHOOSE u \in Upstreams : TRUE
    /\ call = [c \in Callers |-> Idle]
    /\ issued = 0
    /\ admitted = 0
    /\ lastAdmit = NoAdmit
    /\ counts = {DefaultCount}

NextGate == GateAdmit \/ Tick

SpecGate == InitGate /\ [][NextGate]_vars

\* the tools called with any count, the API answering 200 on every endpoint
InitCounts ==
    /\ RATE_LIMIT = [per_second |-> PerSecond, per_month |-> PerMonth]
    /\ now = 0
    /\ request_count = [second |-> 0, month |-> 0, last_reset |-> 0]
    /\ upstream \in {u \in Upstreams : \A e \in Endpoints : ResponseError(u[e]) = ""}
    /\ call = [c \in Callers |-> Idle]
    /\ issued = 0
    /\ admitted = 0
    /\ lastAdmit = NoAdmit
    /\ counts = Counts

SpecCounts == InitCounts /\ [][Next]_vars

\* the process some time into the month: all of the monthly quota but two
\* requests at most has been used, the last admit has just been made
InitQuota ==
    /\ RATE_LIMIT = [per_second |-> PerSecond, per_month |-> PerMonth]
    /\ now = 0
    /\ \E used \in {m \in 1..PerMonth : m + 2 >= PerMonth} :
          /\ request_count = [second |-> 1, month |-> used, last_reset |-> 0]
          /\ issued = used
          /\ admitted = used
    /\ upstream \in Upstreams
    /\ call = [c \in Callers |-> Idle]
    /\ lastAdmit = NoAdmit
    /\ counts = {DefaultCount}

SpecQuota == InitQuota /\ [][Next]_vars

----------------------------------------------------------------------------
(* Properties *)

\* a finished invocation of caller c
Done(c) == call[c].pc = "done"

\* a lookup task that was started and has not ended
InFlight(t) == t.pc \in {"start", "wait"}

\* the messages of the errors the operations raise
ErrorMessages ==
    {RateLimitMessage, "Brave API error: 500 Error\n{}", "All connection attempts failed"}

\* C1: an entry point that has returned has returned a text: "Error: "
\* followed by the message of the error raised inside it (rate limit,
\* non-200 answer, transport failure), or the text of the operation unchanged
C1_ErrorsBecomeText ==
    \A c \in Callers : Done(c) =>
        /\ call[c].outcome.kind \in {"ok", "err"}
        /\ call[c].outcome.kind = "err" =>
              /\ call[c].outcome.text \in ErrorMessages
              /\ call[c].ret = "Error: " \o call[c].outcome.text
        /\ call[c].outcome.kind = "ok" => call[c].ret = call[c].outcome.text

C1_Witness ==
    \E c \in Callers :
        /\ Done(c)
        /\ call[c].tool = "local"
        /\ call[c].ret = "Error: Brave API error: 500 Error\n{}"

\* C2: the call of check_rate_limit that follows N = per_second admits made
\* since last_reset was set, no more than one second after last_reset,
\* raises "Rate limit exceeded"
C2_PerSecondLimit ==
    ( /\ lastAdmit.called
      /\ lastAdmit.prior = RATE_LIMIT.per_second
      /\ lastAdmit.at - lastAdmit.before.last_reset <= TicksPerSecond )
    => ~lastAdmit.ok /\ lastAdmit.raised = "Rate limit exceeded"

C2_Witness ==
    /\ lastAdmit.called
    /\ RATE_LIMIT.per_second = 2
    /\ lastAdmit.prior = 2
    /\ lastAdmit.before.month < RATE_LIMIT.per_month
    /\ lastAdmit.at - lastAdmit.before.last_reset <= TicksPerSecond
    /\ ~lastAdmit.ok

\* the effect of a call of check_rate_limit that found the window expired:
\* the count restarts, and the call is admitted when the month allows it
RolledOver ==
    /\ request_count.second = (IF lastAdmit.ok THEN 1 ELSE 0)
    /\ lastAdmit.before.month < RATE_LIMIT.per_month => lastAdmit.ok

\* C3 as claimed: a call at least one second after last_reset (exactly one
\* second included) resets the count and is admitted when month < per_month
C3_RolloverAtOneSecond ==
    ( /\ lastAdmit.called
      /\ lastAdmit.at - lastAdmit.before.last_reset >= TicksPerSecond )
    => RolledOver

\* C3: a call more than one second after last_reset resets the count and is
\* admitted when month < per_month, even if second had reached per_second
C3_RolloverAfterOneSecond ==
    ( /\ lastAdmit.called
      /\ lastAdmit.at - lastAdmit.before.last_reset > TicksPerSecond )
    => RolledOver

C3_Witness ==
    /\ lastAdmit.called
    /\ lastAdmit.at - lastAdmit.before.last_reset > TicksPerSecond
    /\ lastAdmit.before.second = RATE_LIMIT.per_second
    /\ lastAdmit.ok
    /\ request_count.second = 1

\* the initial request of c was answered 200 with at least one location id
HasLocations(c) == Len(call[c].ids) > 0

\* the upstream answers the endpoint with 200
Answers200(e) == ResponseError(upstream[e]) = ""

\* C4: when the initial request returned 200 with no location id, the local
\* search ends with what perform_web_search makes of the upstream's answer
\* to the web search: the web results, and not an error of its own
C4_FallbackYieldsWebResults ==
    \A c \in Callers :
        (Done(c) /\ call[c].fallback) => call[c].outcome = WebOutcome(upstream.web)

\* C5: from fresh counters, when the initial request returned 200 with
\* location ids and the upstream answers both lookups with 200, the local
\* search returns format_local_results of the two answers
C5_LocalSearchSucceeds ==
    \A c \in Callers :
        ( /\ Done(c)
          /\ call[c].tool = "local"
          /\ call[c].fresh
          /\ HasLocations(c)
          /\ Answers200("pois")
          /\ Answers200("descriptions") )
        => call[c].outcome =
              Returned(format_local_results(upstream.pois.data,
                                            upstream.descriptions.data))

\* C6: an operation whose check_rate_limit raised has made no request, and
\* has raised "Rate limit exceeded"
C6_RejectionWithoutRequest ==
    \A c \in Callers :
        /\ \A e \in call[c].rejected : call[c].sent[e] = 0
        /\ "pois" \in call[c].rejected =>
              call[c].pois.pc = "failed" /\ call[c].pois.err = "Rate limit exceeded"
        /\ "descriptions" \in call[c].rejected =>
              call[c].desc.pc = "failed" /\ call[c].desc.err = "Rate limit exceeded"
        /\ ({"web", "locations"} \cap call[c].rejected) # {} =>
              Done(c) /\ call[c].outcome = Raised("Rate limit exceeded")

C6_Witness ==
    \E c \in Callers :
        /\ call[c].rejected = {"descriptions"}
        /\ call[c].sent = [e \in Endpoints |-> IF e \in {"locations", "pois"} THEN 1 ELSE 0]

\* the errors of the lookups of c that have failed
LookupErrors(c) ==
    {t.err : t \in {u \in {call[c].pois, call[c].desc} : u.pc = "failed"}}

\* C7: a local search whose lookup failed ends with the error of a failed
\* lookup; it returns text only when both lookups succeeded, and then the
\* merge of their two answers
C7_NoPartialResults ==
    \A c \in Callers :
        (Done(c) /\ call[c].pois.pc # "none") =>
            /\ LookupErrors(c) # {} =>
                  call[c].outcome.kind = "err" /\ call[c].outcome.text \in LookupErrors(c)
            /\ call[c].outcome.kind = "ok" =>
                  /\ call[c].pois.pc = "ok"
                  /\ call[c].desc.pc = "ok"
                  /\ call[c].outcome.text =
                        format_local_results(upstream.pois.data,
                                             upstream.descriptions.data)

C7_Witness ==
    \E c \in Callers :
        /\ Done(c)
        /\ call[c].pois.pc = "ok"
        /\ call[c].desc.pc = "failed"
        /\ call[c].outcome = Raised("Brave API error: 500 Error\n{}")

\* C8 as claimed: perform_local_search has not ended, with a result or with
\* an error, while one of its lookups is in flight
C8_JoinsBothLookups ==
    \A c \in Callers :
        Done(c) => ~InFlight(call[c].pois) /\ ~InFlight(call[c].desc)

\* C8: perform_local_search returns a result only when both lookups have
\* ended; it ends while a lookup is in flight only by raising the error of
\* the other lookup, and never before both lookups have been started
C8_JoinsOnSuccess ==
    \A c \in Callers :
        /\ (Done(c) /\ call[c].outcome.kind = "ok") =>
              ~InFlight(call[c].pois) /\ ~InFlight(call[c].desc)
        /\ (Done(c) /\ (InFlight(call[c].pois) \/ InFlight(call[c].desc))) =>
              /\ call[c].outcome.kind = "err"
              /\ call[c].outcome.text \in LookupErrors(c)
              /\ call[c].pois.pc # "start"
              /\ call[c].desc.pc # "start"

C8_Witness ==
    \E c \in Callers :
        /\ Done(c)
        /\ call[c].outcome.kind = "ok"
        /\ call[c].pois.pc = "ok"
        /\ call[c].desc.pc = "ok"

\* C9: with the lookups and the invocations interleaved in every way, no
\* increment is lost and the counters stay within the limits
C9_CountersWithinLimits ==
    /\ request_count.second <= RATE_LIMIT.per_second
    /\ request_count.month <= RATE_LIMIT.per_month
    /\ request_count.month = admitted

C9_Witness ==
    /\ \E c \in Callers :
          /\ call[c].pois.pc = "wait"
          /\ call[c].desc.pc = "wait"
          /\ \E d \in Callers \ {c} : Done(d) /\ call[d].rejected # {}
    /\ request_count.month = RATE_LIMIT.per_month
    /\ request_count.second = RATE_LIMIT.per_second

\* C10: the requests made are no more than the admits, in total and for
\* every invocation, and no endpoint is requested twice by one invocation
C10_OneAdmitPerRequest ==
    /\ issued <= admitted
    /\ issued <= request_count.month
    /\ \A c \in Callers :
          /\ call[c].sent["locations"] + call[c].sent["web"] + call[c].sent["pois"]
                + call[c].sent["descriptions"] <= call[c].admits
          /\ \A e \in Endpoints : call[c].sent[e] <= 1

C10_Witness ==
    /\ issued = 3
    /\ \E c \in Callers : call[c].admits = 2 /\ call[c].fallback

\* the requests the invocation of caller c has made
RequestsOf(c) ==
    call[c].sent["locations"] + call[c].sent["web"] + call[c].sent["pois"]
        + call[c].sent["descriptions"]

\* C11: one brave_local_search takes at most 3 units of the monthly quota
\* and makes at most 3 requests, two of them at most when it falls back to
\* the web search; one brave_web_search takes at most 1 and makes at most 1
C11_BoundedQuotaUse ==
    \A c \in Callers :
        /\ call[c].tool = "local" =>
              /\ call[c].admits <= 3
              /\ RequestsOf(c) <= 3
              /\ call[c].fallback => call[c].admits <= 2 /\ RequestsOf(c) <= 2
        /\ call[c].tool = "web" => call[c].admits <= 1 /\ RequestsOf(c) <= 1

C11_Witness ==
    \E c \in Callers :
        /\ Done(c)
        /\ call[c].tool = "local"
        /\ call[c].admits = 3
        /\ RequestsOf(c) = 3
        /\ request_count.month = 3

\* C12: no step lowers request_count["month"], neither an admit nor the
\* passing of time nor the reset of the one-second window: a step adds to it
\* the admits that succeed in the step and nothing else changes it
C12_MonthNeverDecreases ==
    [][/\ request_count'.month >= request_count.month
       /\ request_count'.month = request_count.month + (admitted' - admitted)]_vars

C12_Witness ==
    /\ request_count.last_reset > TicksPerSecond
    /\ request_count.second = 1
    /\ request_count.month = 3
    /\ admitted = 3

\* the 'count' the invocation of caller c has sent on endpoint e
CountsSent(c, e) == {p.count : p \in {q \in call[c].params : q.endpoint = e}}

\* C13: a count above 20 goes upstream as exactly 20 and raises nothing,
\* a count of 20 or less goes upstream as it is; in perform_web_search, in
\* the initial request of perform_local_search and in its fallback
C13_CountClamp ==
    \A c \in Callers :
        LET sent == IF call[c].count > 20 THEN 20 ELSE call[c].count
        IN  /\ call[c].sent["web"] = 1 => CountsSent(c, "web") = {sent}
            /\ call[c].sent["locations"] = 1 => CountsSent(c, "locations") = {sent}
            /\ CountsSent(c, "pois") = {} /\ CountsSent(c, "descriptions") = {}
            /\ Done(c) /\ call[c].outcome.kind = "err" =>
                  call[c].outcome.text = RateLimitMessage

C13_Witness ==
    /\ \E c \in Callers :
          /\ Done(c) /\ call[c].tool = "web" /\ call[c].outcome.kind = "ok"
          /\ call[c].count = 22 /\ CountsSent(c, "web") = {20}
    /\ \E c \in Callers :
          /\ Done(c) /\ call[c].tool = "local" /\ call[c].fallback
          /\ call[c].outcome.kind = "ok"
          /\ call[c].count = 21
          /\ CountsSent(c, "locations") = {20} /\ CountsSent(c, "web") = {20}

\* number of the admits that succeeded at a time in [t, t + d)
AdmitsWithin(t, d) ==
    Cardinality({j \in 1..Len(lastAdmit.times) :
                    lastAdmit.times[j] >= t /\ lastAdmit.times[j] < t + d})

\* C14 as stated: no interval of one second holds more admits that
\* succeeded than the per-second limit
C14_RollingSecondLimit ==
    \A i \in 1..Len(lastAdmit.times) :
        AdmitsWithin(lastAdmit.times[i], TicksPerSecond) <= RATE_LIMIT.per_second

\* C14: the limit is per window, not per rolling second: of the admits made
\* since last_reset was set at most per_second succeed, and an interval of
\* one second, which may straddle one reset, holds at most twice per_second
C14_FixedWindowLimit ==
    /\ AdmitsWithin(request_count.last_reset, MaxTime + 1) <= RATE_LIMIT.per_second
    /\ \A i \in 1..Len(lastAdmit.times) :
          AdmitsWithin(lastAdmit.times[i], TicksPerSecond) <= 2 * RATE_LIMIT.per_second

C14_Witness ==
    /\ RATE_LIMIT.per_second = 1
    /\ Len(lastAdmit.times) >= 2
    /\ lastAdmit.times[2] - lastAdmit.times[1] < TicksPerSecond
    /\ lastAdmit.times[1] = TicksPerSecond
    /\ request_count.last_reset = lastAdmit.times[2]

InitialFails == upstream.locations \in {TransportFailure, HttpError}

\* C16: a local search makes the fallback's web request only after its
\* initial request was answered 200 without location ids; when the initial
\* request is refused by the rate limit or not answered 200 the search
\* fails and makes no other request; the fallback's request and the
\* lookups are never made by one invocation
C16_FallbackOnlyOnNoIds ==
    \A c \in Callers : call[c].tool = "local" =>
        /\ call[c].sent["web"] > 0 =>
              /\ upstream.locations = Http200(NoLocationsData)
              /\ call[c].sent["locations"] = 1
              /\ call[c].fallback
        /\ "locations" \in call[c].rejected =>
              /\ RequestsOf(c) = 0
              /\ Done(c) /\ call[c].outcome = Raised(RateLimitMessage)
        /\ InitialFails =>
              /\ RequestsOf(c) = call[c].sent["locations"]
              /\ call[c].rejected \subseteq {"locations"}
              /\ call[c].pc # "loc_wait" => Done(c) /\ call[c].outcome.kind = "err"
        /\ ~(call[c].sent["web"] > 0
               /\ call[c].sent["pois"] + call[c].sent["descriptions"] > 0)
        /\ call[c].fallback => call[c].pois = NoTask /\ call[c].desc = NoTask

C16_Witness ==
    \E c \in Callers :
        /\ Done(c)
        /\ call[c].tool = "local"
        /\ call[c].fallback
        /\ call[c].sent["web"] = 1
        /\ \E d \in Callers \ {c} :
              /\ Done(d)
              /\ call[d].tool = "local"
              /\ "locations" \in call[d].rejected

\* C17: a call of check_rate_limit that returns adds 1 to "second", counted
\* from 0 when the window was reset, and 1 to "month"; a call that raises
\* leaves "month" as it was and does not raise "second": it changes nothing,
\* or, made more than one second after last_reset, sets "second" to 0 and
\* last_reset to now
C17_EffectOfOneAdmit ==
    lastAdmit.called =>
        LET b == lastAdmit.before
            expired == lastAdmit.at - b.last_reset > TicksPerSecond
            base == IF expired THEN 0 ELSE b.second
        IN  /\ lastAdmit.ok =>
                 /\ request_count.second = base + 1
                 /\ request_count.month = b.month + 1
                 /\ request_count.last_reset = IF expired THEN lastAdmit.at ELSE b.last_reset
            /\ ~lastAdmit.ok =>
                 /\ request_count.month = b.month
                 /\ request_count.second <= b.second
                 /\ IF expired
                    THEN request_count = [b EXCEPT !.second = 0, !.last_reset = lastAdmit.at]
                    ELSE request_count = b

C17_Witness ==
    /\ lastAdmit.called
    /\ ~lastAdmit.ok
    /\ lastAdmit.before.second = 2
    /\ lastAdmit.at - lastAdmit.before.last_reset > TicksPerSecond
    /\ request_count.second = 0
    /\ request_count.last_reset = lastAdmit.at
    /\ request_count.month = lastAdmit.before.month

\* the monthly quota is used up
Exhausted == request_count.month >= RATE_LIMIT.per_month

\* C18: once request_count["month"] has reached per_month, whatever the
\* time, no call of check_rate_limit returns and no request is made any
\* more, and every tool invoked returns "Error: Rate limit exceeded"
C18_ExhaustionIsPermanent ==
    [][Exhausted =>
          /\ request_count'.month = request_count.month
          /\ admitted' = admitted
          /\ issued' = issued
          /\ \A c \in Callers :
                call[c].pc = "idle" /\ call'[c].pc # "idle" =>
                   /\ call'[c].pc = "done"
                   /\ call'[c].ret = "Error: Rate limit exceeded"
                   /\ call'[c].sent = [e \in Endpoints |-> 0]]_vars

C18_Witness ==
    /\ Exhausted
    /\ request_count.second = 0
    /\ request_count.last_reset > TicksPerSecond
    /\ \E c \in Callers :
          /\ Done(c)
          /\ call[c].tool = "local"
          /\ call[c].admits = 0
          /\ call[c].ret = "Error: Rate limit exceeded"
          /\ \E d \in Callers \ {c} :
                /\ Done(d)
                /\ call[d].tool = "web"
                /\ call[d].admits = 0
                /\ call[d].ret = "Error: Rate limit exceeded"

====
